---- MODULE Spec2Model ----
(***************************************************************************)
(* Model of the Smart Coding MCP server (src/server.py): the device-flow   *)
(* login tools, the credential check made by every GitHub tool, the        *)
(* fan-out/fan-in tools built on asyncio.gather, and the guarded write     *)
(* path.  A tool call is a coroutine: every `await` is a step boundary,    *)
(* and the platform (GitHub) answers each request in flight in any order.  *)
(* Strings that the code inspects character by character (the token        *)
(* prefix test) are sequences of one-character strings.                    *)
(***************************************************************************)
EXTENDS Integers, Sequences, FiniteSets, TLC

VARIABLES
    now,          \* the event loop's clock, in seconds
    vl_pc,        \* verify_login: position of the coroutine
    vl_start,     \* verify_login: start_time
    vl_polls,     \* verify_login: poll requests issued
    vl_answers,   \* verify_login: poll responses received
    vl_sleeps,    \* verify_login: asyncio.sleep(5) calls completed
    vl_last,      \* verify_login: poll_data of the latest response
    vl_lat,       \* verify_login: duration of the latest poll request
    vl_waited,    \* verify_login: TRUE while every response so far was "keep waiting"
    vl_result,    \* verify_login: the returned message
    op,           \* credentialed tool call: the tool that was called
    ctx,          \* credentialed tool call: the inbound request context
    args,         \* credentialed tool call: the arguments
    pc,           \* credentialed tool call: position of the coroutine
    reqs,         \* credentialed tool call: platform requests issued, in order
    resp,         \* credentialed tool call: resp[i] answers reqs[i]
    result,       \* credentialed tool call: what the call returned or raised
    cw_args,      \* concurrent writers: cw_args[w] are the arguments of call w
    cw_pc,        \* concurrent writers: position of each commit_file_update call
    cw_req,       \* concurrent writers: the update request each call issued
    cw_resp,      \* concurrent writers: the platform's answer to each call
    cw_result,    \* concurrent writers: what each call returned
    stored,       \* the platform: the file's live content
    un_op,        \* single call: validate_header_token, parse_github_error or initiate_login
    un_in,        \* single call: the context and environment, or the response to translate
    un_pc,        \* single call: position of the call
    un_reqs,      \* single call: platform requests issued, in order
    un_resp,      \* single call: the platform's answer to initiate_login's request
    un_out,       \* single call: what the call returned or raised
    bw_clock,     \* concurrent initialize_workspace: time.time() of each call, in half seconds
    bw_pc,        \* concurrent initialize_workspace: position of each call
    bw_branch,    \* concurrent initialize_workspace: new_branch of each call
    bw_req,       \* concurrent initialize_workspace: the request each call issued last
    bw_resp,      \* concurrent initialize_workspace: the platform's answer to it
    bw_result,    \* concurrent initialize_workspace: what each call returned
    branches,     \* the platform: the branches created in the repository
    base_head     \* the platform: the commit the base branch points at

loginVars == <<now, vl_pc, vl_start, vl_polls, vl_answers, vl_sleeps, vl_last,
               vl_lat, vl_waited, vl_result>>

callVars == <<op, ctx, args, pc, reqs, resp, result>>

raceVars == <<cw_args, cw_pc, cw_req, cw_resp, cw_result, stored>>

unitVars == <<un_op, un_in, un_pc, un_reqs, un_resp, un_out>>

branchVars == <<bw_clock, bw_pc, bw_branch, bw_req, bw_resp, bw_result,
                branches, base_head>>

vars == <<loginVars, callVars, raceVars, unitVars, branchVars>>

nonLoginVars == <<callVars, raceVars, unitVars, branchVars>>
nonCallVars == <<loginVars, raceVars, unitVars, branchVars>>
nonRaceVars == <<loginVars, callVars, unitVars, branchVars>>
nonUnitVars == <<loginVars, callVars, raceVars, branchVars>>
nonBranchVars == <<loginVars, callVars, raceVars, unitVars>>

None == "None"

\* poll_data before the first response, and the result before the call returns
NoPoll == [none |-> TRUE]
NoResult == [kind |-> "None"]

(***************************************************************************)
(* Bounds of the model                                                     *)
(***************************************************************************)
\* longest duration of one poll request, in seconds
MaxLatency == 2
\* latest value of the loop clock at which verify_login is called
MaxStart == 1

(***************************************************************************)
(* State of the credentialed tools while a verify_login call is modelled   *)
(***************************************************************************)
CallIdle ==
    /\ op = None
    /\ ctx = [request_ok |-> FALSE, has_header |-> FALSE, token |-> <<>>]
    /\ args = [none |-> TRUE]
    /\ pc = "idle"
    /\ reqs = <<>>
    /\ resp = <<>>
    /\ result = NoResult

RaceIdle ==
    /\ cw_args = <<>>
    /\ cw_pc = <<>>
    /\ cw_req = <<>>
    /\ cw_resp = <<>>
    /\ cw_result = <<>>
    /\ stored = None

BranchIdle ==
    /\ bw_clock = <<>>
    /\ bw_pc = <<>>
    /\ bw_branch = <<>>
    /\ bw_req = <<>>
    /\ bw_resp = <<>>
    /\ bw_result = <<>>
    /\ branches = {}
    /\ base_head = None

UnitsIdle ==
    /\ un_op = None
    /\ un_in = [none |-> TRUE]
    /\ un_pc = "idle"
    /\ un_reqs = <<>>
    /\ un_resp = [status |-> 0, body |-> "in flight"]
    /\ un_out = NoResult

(***************************************************************************)
(* verify_login                                                            *)
(***************************************************************************)
\* while (...) < 120
Budget == 120
\* await asyncio.sleep(5)
Interval == 5

\* access tokens the token endpoint may hand out
AccessTokens == { <<"g","h","u","_","a">>, <<"g","h","o","_","b">> }

\* OAuth error codes of the token endpoint
PollErrors == {"authorization_pending", "slow_down", "access_denied", "expired_token"}

\* poll_resp.json(): a success body, an error body,
\* or a well-formed body with neither key
PollData == { [access_token |-> t] : t \in AccessTokens }
            \cup { [error |-> e] : e \in PollErrors }
            \cup { [message |-> "Not Found"] }

\* "access_token" in poll_data
HasAccessToken(pd) == "access_token" \in DOMAIN pd

\* poll_data.get("error")
GetError(pd) == IF "error" \in DOMAIN pd THEN pd.error ELSE None

\* the loop condition, tested at the head of each iteration
DeadlineOffByOne(elapsed) == elapsed <= Budget
WithinBudget(elapsed) == elapsed < Budget

\* the message returned on success carries the token twice
SuccessMessageTruncated(token) ==
    [kind |-> "Succeeded", token |-> SubSeq(token, 1, 3), config_token |-> token]
SuccessMessage(token) ==
    [kind |-> "Succeeded", token |-> token, config_token |-> token]

\* what one iteration does with poll_data: return a message, or go on to sleep
PollOutcomeIgnoresExpiry(pd) ==
    IF HasAccessToken(pd) THEN SuccessMessage(pd.access_token)
    ELSE [kind |-> "Wait"]
PollOutcomeDeniedEndsLoop(pd) ==
    IF HasAccessToken(pd) THEN SuccessMessage(pd.access_token)
    ELSE IF GetError(pd) = "expired_token" THEN [kind |-> "Expired"]
    ELSE IF GetError(pd) = "access_denied" THEN [kind |-> "Denied"]
    ELSE [kind |-> "Wait"]
PollOutcome(pd) ==
    IF HasAccessToken(pd) THEN SuccessMessage(pd.access_token)
    ELSE IF GetError(pd) = "expired_token" THEN [kind |-> "Expired"]
    ELSE [kind |-> "Wait"]

TimeoutMessage == [kind |-> "Timeout"]

InitLogin ==
    /\ now \in 0..MaxStart
    /\ vl_pc = "idle"
    /\ vl_start = 0
    /\ vl_polls = 0
    /\ vl_answers = 0
    /\ vl_sleeps = 0
    /\ vl_last = NoPoll
    /\ vl_lat = 0
    /\ vl_waited = TRUE
    /\ vl_result = NoResult
    /\ CallIdle
    /\ RaceIdle
    /\ UnitsIdle
    /\ BranchIdle

\* start_time = asyncio.get_running_loop().time()
VL_Call ==
    /\ vl_pc = "idle"
    /\ vl_start' = now
    /\ vl_pc' = "head"
    /\ UNCHANGED <<now, vl_polls, vl_answers, vl_sleeps, vl_last, vl_lat,
                   vl_waited, vl_result, nonLoginVars>>

\* loop head, deadline not reached: the poll request is sent
VL_Poll ==
    /\ vl_pc = "head"
    /\ WithinBudget(now - vl_start)
    /\ vl_polls' = vl_polls + 1
    /\ vl_pc' = "polling"
    /\ UNCHANGED <<now, vl_start, vl_answers, vl_sleeps, vl_last, vl_lat,
                   vl_waited, vl_result, nonLoginVars>>

\* loop head, deadline reached: the loop ends and the timeout message is returned
VL_Timeout ==
    /\ vl_pc = "head"
    /\ ~WithinBudget(now - vl_start)
    /\ vl_result' = TimeoutMessage
    /\ vl_pc' = "done"
    /\ UNCHANGED <<now, vl_start, vl_polls, vl_answers, vl_sleeps, vl_last,
                   vl_lat, vl_waited, nonLoginVars>>

\* the token endpoint answers after d seconds with body pd; the body is handled
VL_Response ==
    /\ vl_pc = "polling"
    /\ \E d \in 0..MaxLatency, pd \in PollData :
        /\ now' = now + d
        /\ vl_lat' = d
        /\ vl_last' = pd
        /\ vl_answers' = vl_answers + 1
        /\ vl_waited' = (vl_waited /\ ~HasAccessToken(pd)
                                   /\ GetError(pd) # "expired_token")
        /\ IF PollOutcome(pd).kind = "Wait"
           THEN /\ vl_pc' = "sleeping"
                /\ UNCHANGED vl_result
           ELSE /\ vl_pc' = "done"
                /\ vl_result' = PollOutcome(pd)
    /\ UNCHANGED <<vl_start, vl_polls, vl_sleeps, nonLoginVars>>

\* await asyncio.sleep(5) completes
VL_WakeSleepsLess ==
    /\ vl_pc = "sleeping"
    /\ now' = now + Interval - 1
    /\ vl_sleeps' = vl_sleeps + 1
    /\ vl_pc' = "head"
    /\ UNCHANGED <<vl_start, vl_polls, vl_answers, vl_last, vl_lat, vl_waited,
                   vl_result, nonLoginVars>>
VL_Wake ==
    /\ vl_pc = "sleeping"
    /\ now' = now + Interval
    /\ vl_sleeps' = vl_sleeps + 1
    /\ vl_pc' = "head"
    /\ UNCHANGED <<vl_start, vl_polls, vl_answers, vl_last, vl_lat, vl_waited,
                   vl_result, nonLoginVars>>

NextLogin ==
    \/ VL_Call
    \/ VL_Poll
    \/ VL_Timeout
    \/ VL_Response
    \/ VL_Wake

SpecLogin == InitLogin /\ [][NextLogin]_vars

\* the event loop runs a coroutine that is ready, and a request or a sleep
\* that was started completes
LiveLogin == SpecLogin /\ WF_vars(NextLogin)

VL_Done == vl_pc = "done"
VL_Elapsed == now - vl_start
VL_LastExpired == ~HasAccessToken(vl_last) /\ GetError(vl_last) = "expired_token"

(***************************************************************************)
(* Properties of verify_login                                              *)
(***************************************************************************)

C3_ExpiredAtPollN ==
    /\ VL_LastExpired =>
        /\ VL_Done
        /\ vl_result = [kind |-> "Expired"]
        /\ vl_polls = vl_answers
        /\ vl_sleeps = vl_polls - 1
        /\ VL_Elapsed <= (vl_polls - 1) * Interval + vl_polls * MaxLatency
    /\ vl_result.kind = "Expired" => VL_LastExpired

\* the login code expired on the second poll, long before the budget
C3_Witness ==
    /\ VL_LastExpired /\ VL_Done
    /\ vl_answers = 2
    /\ VL_Elapsed < Budget

\* C4: when poll N is the first answered with an access_token T, verify_login
\* has issued exactly N polls, stopped there, and returned Succeeded with T
\* unchanged.
C4_SucceededAtPollN ==
    /\ HasAccessToken(vl_last) =>
        /\ VL_Done
        /\ vl_result.kind = "Succeeded"
        /\ vl_result.token = vl_last.access_token
        /\ vl_result.config_token = vl_last.access_token
        /\ vl_polls = vl_answers
        /\ vl_sleeps = vl_polls - 1
    /\ vl_result.kind = "Succeeded" => HasAccessToken(vl_last)
    /\ vl_answers <= vl_polls /\ vl_polls <= vl_answers + 1

\* the token arrives on the third poll
C4_Witness ==
    /\ VL_Done
    /\ HasAccessToken(vl_last)
    /\ vl_answers = 3
    /\ vl_result = SuccessMessage(<<"g","h","u","_","a">>)

\* C20: a poll response carrying neither access_token nor the expired_token
\* error never ends the loop: it is followed by one sleep of exactly Interval
\* seconds, whatever the response and the poll count, and then, while budget
\* remains, by exactly one further poll.
C20_KeepWaitingFixedInterval ==
    [][ /\ (/\ vl_pc = "polling" /\ vl_pc' # "polling"
            /\ ~HasAccessToken(vl_last') /\ GetError(vl_last') # "expired_token") =>
              /\ vl_pc' = "sleeping"
              /\ vl_result' = NoResult
              /\ vl_polls' = vl_polls
        /\ (vl_pc = "sleeping" /\ vl_pc' # "sleeping") =>
              /\ now' - now = Interval
              /\ vl_pc' = "head"
              /\ vl_sleeps' = vl_sleeps + 1
              /\ vl_polls' = vl_polls
        /\ (vl_pc = "head" /\ vl_pc' # "head" /\ now - vl_start < Budget) =>
              /\ vl_pc' = "polling"
              /\ vl_polls' = vl_polls + 1
              /\ now' = now
      ]_vars

\* a body with neither key was followed by a sleep and the third poll
C20_Witness ==
    /\ vl_pc = "polling"
    /\ vl_polls = 3 /\ vl_sleeps = 2
    /\ vl_last = [message |-> "Not Found"]
    /\ vl_result = NoResult

\* C23: the number of poll requests of verify_login is bounded: a poll is in
\* flight only if less than Budget seconds had elapsed when it was sent, poll
\* N is sent no earlier than (N - 1) * Interval seconds after the start, and
\* so at most Budget / Interval = 24 polls are issued, whatever the answers.
C23_PollsBounded ==
    /\ vl_polls <= Budget \div Interval
    /\ vl_polls <= 24
    /\ vl_sleeps <= vl_polls
    /\ vl_pc = "polling" =>
          /\ VL_Elapsed < Budget
          /\ VL_Elapsed >= (vl_polls - 1) * Interval

\* the twenty-fourth poll is in flight, sent 115 s after the start
C23_Witness ==
    /\ vl_pc = "polling"
    /\ vl_polls = 24
    /\ VL_Elapsed = 115

(***************************************************************************)
(* The credentialed tools: helpers                                         *)
(***************************************************************************)
\* longest header value, in characters
MaxTokLen == 3
\* longest list of paths given to read_references
MaxPaths == 2

SeqsUpTo(S, n) == UNION { [1..k -> S] : k \in 0..n }

\* characters of which header values are made
TokenChars == {"g", "h", "u", "o", "p", "x"}
HeaderTokens == SeqsUpTo(TokenChars, MaxTokLen)

\* the inbound request context: ctx.request_context.request may be missing,
\* the header may be absent, or it carries a value
Contexts ==
    { [request_ok |-> FALSE, has_header |-> FALSE, token |-> <<>>],
      [request_ok |-> TRUE, has_header |-> FALSE, token |-> <<>>] }
    \cup { [request_ok |-> TRUE, has_header |-> TRUE, token |-> t] : t \in HeaderTokens }

\* str.startswith(prefix)
StartsWith(str, prefix) ==
    /\ Len(str) >= Len(prefix)
    /\ \A i \in 1..Len(prefix) : str[i] = prefix[i]

\* ("ghu", "gho", "ghp")
TokenPrefixesWithoutGhp == { <<"g","h","u">>, <<"g","h","o">> }
TokenPrefixes == { <<"g","h","u">>, <<"g","h","o">>, <<"g","h","p">> }

AuthFailed == [ok |-> FALSE, token |-> <<>>]

\* validate_header_token: the token, or the ToolError every failure collapses to
ValidateAnyNonEmpty(c) ==
    IF ~c.request_ok THEN AuthFailed
    ELSE LET token == IF c.has_header THEN c.token ELSE <<>>
         IN  IF token = <<>> THEN AuthFailed
             ELSE [ok |-> TRUE, token |-> token]
ValidateHeaderToken(c) ==
    IF ~c.request_ok THEN AuthFailed
    ELSE LET token == IF c.has_header THEN c.token ELSE <<>>
         IN  IF token = <<>> THEN AuthFailed
             ELSE IF ~(\E p \in TokenPrefixes : StartsWith(token, p)) THEN AuthFailed
             ELSE [ok |-> TRUE, token |-> token]

\* the ToolError raised by validate_header_token
AuthenticationFailedEchoesHeader ==
    [kind |-> "ToolError", error |-> "Authentication Failed", token |-> ctx.token]
AuthenticationFailed == [kind |-> "ToolError", error |-> "Authentication Failed"]

\* an exception that no handler of the tool catches
Raised(e) == [kind |-> "Raised", error |-> e]

\* a request in flight, and a request that httpx ended with an exception
NoResp == [status |-> 0, body |-> "in flight"]
TransportFailure == [status |-> -1, body |-> "httpx.TransportError"]

\* HTTP status codes the platform answers with
Statuses == {200, 201, 401, 403, 404, 409, 422, 500}

\* commit identifiers and blob hashes
Shas == {"sha0", "sha1"}

\* the forms of a response body the tools tell apart
BodiesOf(endpoint, status) ==
    IF status \notin {200, 201} THEN {"message"}
    ELSE CASE endpoint \in {"contents", "readme"} -> {"ok", "garbled"}
           [] endpoint = "search" -> {"ok", "empty"}
           [] endpoint = "commits" -> Shas \cup {"empty"}
           [] endpoint = "tree" -> {"ok", "long", "truncated"}
           [] endpoint = "commit pulls" -> {"ok", "empty", "no body"}
           [] endpoint = "ref" -> Shas
           [] OTHER -> {"ok"}

Req(method, endpoint, token, payload) ==
    [method |-> method, endpoint |-> endpoint, auth |-> token, payload |-> payload]

ResponsesTo(rq) ==
    UNION { { [status |-> st, body |-> b] : b \in BodiesOf(rq.endpoint, st) } :
            st \in Statuses }
    \cup {TransportFailure}

\* parse_github_error
ParseGithubErrorNo409(r) ==
    CASE r.status = 401 -> [category |-> "401 Unauthorized"]
      [] r.status = 403 -> [category |-> "403 Forbidden"]
      [] r.status = 404 -> [category |-> "404 Not Found"]
      [] r.status = 422 -> [category |-> "422 Unprocessable Entity"]
      [] OTHER -> [category |-> "GitHub API Error", status |-> r.status, text |-> r.body]
ParseGithubErrorGenericWithoutBody(r) ==
    CASE r.status = 401 -> [category |-> "401 Unauthorized"]
      [] r.status = 403 -> [category |-> "403 Forbidden"]
      [] r.status = 404 -> [category |-> "404 Not Found"]
      [] r.status = 409 -> [category |-> "409 Conflict"]
      [] r.status = 422 -> [category |-> "422 Unprocessable Entity"]
      [] OTHER -> [category |-> "GitHub API Error", status |-> r.status, text |-> ""]
ParseGithubError(r) ==
    CASE r.status = 401 -> [category |-> "401 Unauthorized"]
      [] r.status = 403 -> [category |-> "403 Forbidden"]
      [] r.status = 404 -> [category |-> "404 Not Found"]
      [] r.status = 409 -> [category |-> "409 Conflict"]
      [] r.status = 422 -> [category |-> "422 Unprocessable Entity"]
      [] OTHER -> [category |-> "GitHub API Error", status |-> r.status, text |-> r.body]

InFlight == { i \in 1..Len(reqs) : resp[i] = NoResp }
GatherRaised == \E i \in 1..Len(reqs) : resp[i] = TransportFailure
\* await asyncio.gather(*tasks): resumes when every task is done, or as soon as
\* one task raises (return_exceptions is left False)
GatherReady == GatherRaised \/ InFlight = {}

Issue(rs) ==
    /\ reqs' = reqs \o rs
    /\ resp' = resp \o [i \in 1..Len(rs) |-> NoResp]

Return(r) ==
    /\ result' = r
    /\ pc' = "done"

\* the token validate_header_token returned to the running tool
Token == ValidateHeaderToken(ctx).token

\* the first lines of every credentialed tool: validate_header_token(ctx),
\* then the first request(s)
Begin(first, next) ==
    /\ pc = "start"
    /\ LET v == ValidateHeaderToken(ctx)
       IN  IF ~v.ok
           THEN Return(AuthenticationFailed) /\ UNCHANGED <<reqs, resp>>
           ELSE Issue(first) /\ pc' = next /\ UNCHANGED result
    /\ UNCHANGED <<op, ctx, args, nonCallVars>>

\* the platform answers one request in flight, or the transport fails
Respond ==
    /\ pc \notin {"idle", "start", "done"}
    /\ \E i \in InFlight : \E r \in ResponsesTo(reqs[i]) :
            resp' = [resp EXCEPT ![i] = r]
    /\ UNCHANGED <<op, ctx, args, pc, reqs, result, nonCallVars>>

Finish(r) ==
    /\ Return(r)
    /\ UNCHANGED <<reqs, resp, op, ctx, args, nonCallVars>>

Continue(rs, next) ==
    /\ Issue(rs)
    /\ pc' = next
    /\ UNCHANGED <<result, op, ctx, args, nonCallVars>>

\* base64.b64encode(new_content.encode("utf-8")).decode("utf-8")
B64Encode(content) == [b64 |-> content]

(***************************************************************************)
(* get_user_context                                                        *)
(***************************************************************************)
GUC_Requests(token) ==
    << Req("GET", "user", token, None), Req("GET", "user/repos", token, None) >>

GUC_Result(user_resp, repos_resp) ==
    IF user_resp.status # 200
    THEN [kind |-> "User Check Failed", error |-> ParseGithubError(user_resp)]
    ELSE [kind |-> "User Context",
          user |-> user_resp.body,
          repos |-> IF repos_resp.status = 200
                    THEN [listing |-> repos_resp.body]
                    ELSE [error |-> ParseGithubError(repos_resp)]]

GUC_Start == op = "get_user_context" /\ Begin(GUC_Requests(Token), "gather")

GUC_Gathered ==
    /\ op = "get_user_context" /\ pc = "gather" /\ GatherReady
    /\ IF GatherRaised THEN Finish(Raised("TransportError"))
       ELSE Finish(GUC_Result(resp[1], resp[2]))

(***************************************************************************)
(* search_repositories                                                     *)
(***************************************************************************)
SR_Requests(token) == << Req("GET", "search", token, None) >>

SR_Result(r) ==
    IF r.status # 200 THEN [kind |-> "Search failed", error |-> ParseGithubError(r)]
    ELSE IF r.body = "empty" THEN [kind |-> "No repositories found"]
    ELSE [kind |-> "Search Results", items |-> r.body]

SR_Start == op = "search_repositories" /\ Begin(SR_Requests(Token), "await")

SR_Done ==
    /\ op = "search_repositories" /\ pc = "await" /\ InFlight = {}
    /\ IF resp[1] = TransportFailure THEN Finish(Raised("TransportError"))
       ELSE Finish(SR_Result(resp[1]))

(***************************************************************************)
(* get_repository_map                                                      *)
(***************************************************************************)
GRM_Requests(token) == << Req("GET", "tree", token, None) >>

\* files[:200]
MapLimit == 200

\* the number of "blob" entries in data["tree"]: a short tree, a tree of more
\* than 200 files, and the partial tree of a response marked truncated
TreeBlobs(body) ==
    CASE body = "ok" -> 3
      [] body = "long" -> MapLimit + 1
      [] body = "truncated" -> MapLimit + 1
      [] OTHER -> 0

\* len(files[:200])
Cut(n, limit) == IF n <= limit THEN n ELSE limit

GRM_ResultIgnoresTruncated(r) ==
    IF r.status # 200 THEN [kind |-> "Error", error |-> ParseGithubError(r)]
    ELSE [kind |-> "Repository Map", files |-> Cut(TreeBlobs(r.body), MapLimit)]
GRM_Result(r) ==
    IF r.status # 200 THEN [kind |-> "Error", error |-> ParseGithubError(r)]
    ELSE IF r.body = "truncated" THEN [kind |-> "Warning: Repo is too large"]
    ELSE [kind |-> "Repository Map", files |-> Cut(TreeBlobs(r.body), MapLimit)]

GRM_Start == op = "get_repository_map" /\ Begin(GRM_Requests(Token), "await")

GRM_Done ==
    /\ op = "get_repository_map" /\ pc = "await" /\ InFlight = {}
    /\ IF resp[1] = TransportFailure THEN Finish(Raised("TransportError"))
       ELSE Finish(GRM_Result(resp[1]))

(***************************************************************************)
(* get_project_overview                                                    *)
(***************************************************************************)
GPO_Requests(token) ==
    << Req("GET", "languages", token, None),
       Req("GET", "sbom", token, None),
       Req("GET", "readme", token, None) >>

GPO_Result(langs_resp, sbom_resp, readme_resp) ==
    [kind |-> "Project Overview",
     languages |-> IF langs_resp.status = 200 THEN langs_resp.body ELSE "Unknown",
     stack |-> IF sbom_resp.status = 200 THEN sbom_resp.body
               ELSE "(Dependency Graph disabled for this repo)",
     readme |-> IF readme_resp.status = 200
                THEN IF readme_resp.body = "garbled" THEN "Error decoding README."
                     ELSE "README Preview"
                ELSE "No README found."]

GPO_Start == op = "get_project_overview" /\ Begin(GPO_Requests(Token), "gather")

GPO_Gathered ==
    /\ op = "get_project_overview" /\ pc = "gather" /\ GatherReady
    /\ IF GatherRaised THEN Finish(Raised("TransportError"))
       ELSE Finish(GPO_Result(resp[1], resp[2], resp[3]))

(***************************************************************************)
(* inspect_target_file                                                     *)
(***************************************************************************)
ITF_Requests(token) == << Req("GET", "contents", token, args.path) >>

ITF_Document(content_resp, history, pr_context) ==
    [kind |-> "Deep Inspection",
     sha |-> "blob sha",
     history |-> history,
     pr |-> pr_context,
     content |-> content_resp.body]

\* if content_resp.status_code != 200
ITF_ContentFailedOnly404(content_resp) == content_resp.status = 404
ITF_ContentFailed(content_resp) == content_resp.status # 200

ITF_Start == op = "inspect_target_file" /\ Begin(ITF_Requests(Token), "content")

\* A. the content response: abort on an error status, decode, then ask for the history
ITF_Content ==
    /\ op = "inspect_target_file" /\ pc = "content" /\ resp[1] # NoResp
    /\ IF resp[1] = TransportFailure THEN Finish(Raised("TransportError"))
       ELSE IF ITF_ContentFailed(resp[1])
            THEN Finish([kind |-> "Error", error |-> ParseGithubError(resp[1])])
       ELSE IF resp[1].body = "garbled" THEN Finish(Raised("DecodeError"))
       ELSE Continue(<< Req("GET", "commits", Token, args.path) >>, "history")

\* B. the history response: the pull-request lookup is made for the latest commit
ITF_History ==
    /\ op = "inspect_target_file" /\ pc = "history" /\ resp[2] # NoResp
    /\ IF resp[2] = TransportFailure THEN Finish(Raised("TransportError"))
       ELSE LET commits == IF resp[2].status = 200 THEN resp[2].body ELSE "empty"
            IN  IF commits = "empty"
                THEN Finish(ITF_Document(resp[1], "", "No associated PR found."))
                ELSE Continue(<< Req("GET", "commit pulls", Token, commits) >>, "pr")

\* C. the pull-request response
ITF_PullRequest ==
    /\ op = "inspect_target_file" /\ pc = "pr" /\ resp[3] # NoResp
    /\ IF resp[3] = TransportFailure THEN Finish(Raised("TransportError"))
       ELSE IF resp[3].status = 200 /\ resp[3].body # "empty"
            THEN IF resp[3].body = "no body" THEN Finish(Raised("TypeError"))
                 ELSE Finish(ITF_Document(resp[1], resp[2].body, "PR"))
       ELSE Finish(ITF_Document(resp[1], resp[2].body, "No associated PR found."))

(***************************************************************************)
(* read_references                                                         *)
(***************************************************************************)
RR_Requests(token) ==
    [i \in 1..Len(args.paths) |-> Req("GET", "contents", token, args.paths[i])]

\* fetch_one, once its request was answered
FetchOne(path, r) ==
    IF r.status = 200
    THEN IF r.body = "garbled"
         THEN [path |-> path, tag |-> "ERROR: Could not decode"]
         ELSE [path |-> path, tag |-> "REFERENCE", content |-> r.body]
    ELSE [path |-> path, tag |-> "ERROR", error |-> ParseGithubError(r)]

RR_Result == [kind |-> "References",
              blocks |-> [i \in 1..Len(reqs) |-> FetchOne(args.paths[i], resp[i])]]

RR_Start == op = "read_references" /\ Begin(RR_Requests(Token), "gather")

RR_Gathered ==
    /\ op = "read_references" /\ pc = "gather" /\ GatherReady
    /\ IF GatherRaised THEN Finish(Raised("TransportError"))
       ELSE Finish(RR_Result)

(***************************************************************************)
(* initialize_workspace                                                    *)
(***************************************************************************)
\* f"docs/update-{int(time.time())}"
\* f"docs/update-{int(time.time())}"
BranchName(unix_time) == [prefix |-> "docs/update-", stamp |-> unix_time]

NewBranch == BranchName(args.unix_time)

IW_Requests(token) == << Req("GET", "ref", token, args.base_branch) >>

\* json={"ref": f"refs/heads/{new_branch}", "sha": base_sha}
IW_CreatePayloadOfBranchName(base_sha) == [ref |-> NewBranch, sha |-> args.base_branch]
IW_CreatePayload(base_sha) == [ref |-> NewBranch, sha |-> base_sha]

IW_Start == op = "initialize_workspace" /\ Begin(IW_Requests(Token), "ref")

\* 1. the base branch's SHA was read: create the branch at that SHA
IW_Ref ==
    /\ op = "initialize_workspace" /\ pc = "ref" /\ resp[1] # NoResp
    /\ IF resp[1] = TransportFailure THEN Finish(Raised("TransportError"))
       ELSE IF resp[1].status # 200
            THEN Finish([kind |-> "Failed to find base branch",
                         error |-> ParseGithubError(resp[1])])
       ELSE Continue(<< Req("POST", "refs", Token,
                            IW_CreatePayload(resp[1].body)) >>, "create")

\* 2. the answer to the branch creation
IW_CreatedRollsBack ==
    /\ op = "initialize_workspace" /\ pc = "create" /\ resp[2] # NoResp
    /\ IF resp[2] = TransportFailure THEN Finish(Raised("TransportError"))
       ELSE IF resp[2].status = 201
            THEN Finish([kind |-> "Workspace initialized", branch |-> NewBranch])
       ELSE Continue(<< Req("DELETE", "refs", Token, NewBranch) >>, "rollback")
IW_Created ==
    /\ op = "initialize_workspace" /\ pc = "create" /\ resp[2] # NoResp
    /\ IF resp[2] = TransportFailure THEN Finish(Raised("TransportError"))
       ELSE IF resp[2].status = 201
            THEN Finish([kind |-> "Workspace initialized", branch |-> NewBranch])
       ELSE Finish([kind |-> "Error creating branch",
                    error |-> ParseGithubError(resp[2])])

(***************************************************************************)
(* commit_file_update                                                      *)
(***************************************************************************)
CFU_PayloadShaOfNewContent(a) ==
    [message |-> a.message, content |-> B64Encode(a.new_content),
     branch |-> a.branch, sha |-> [sha_of |-> a.new_content]]
CFU_Payload(a) ==
    [message |-> a.message, content |-> B64Encode(a.new_content),
     branch |-> a.branch, sha |-> a.original_sha]

CFU_Request(token, a) == Req("PUT", "contents", token, CFU_Payload(a))

CFU_Requests(token) == << CFU_Request(token, args) >>

CFU_Result(r) ==
    IF r.status \in {200, 201} THEN [kind |-> "File updated"]
    ELSE [kind |-> "Update failed", error |-> ParseGithubError(r)]

CFU_Start == op = "commit_file_update" /\ Begin(CFU_Requests(Token), "await")

CFU_Done ==
    /\ op = "commit_file_update" /\ pc = "await" /\ InFlight = {}
    /\ IF resp[1] = TransportFailure THEN Finish(Raised("TransportError"))
       ELSE Finish(CFU_Result(resp[1]))

(***************************************************************************)
(* submit_review_request                                                   *)
(***************************************************************************)
SRR_Requests(token) ==
    << Req("POST", "pulls", token,
           [title |-> "t", body |-> "b", head |-> args.head_branch, base |-> "main"]) >>

SRR_Result(r) ==
    IF r.status = 201 THEN [kind |-> "PR Created", url |-> r.body]
    ELSE [kind |-> "PR Creation failed", error |-> ParseGithubError(r)]

SRR_Start == op = "submit_review_request" /\ Begin(SRR_Requests(Token), "await")

SRR_Done ==
    /\ op = "submit_review_request" /\ pc = "await" /\ InFlight = {}
    /\ IF resp[1] = TransportFailure THEN Finish(Raised("TransportError"))
       ELSE Finish(SRR_Result(resp[1]))

(***************************************************************************)
(* One call of a credentialed tool                                         *)
(***************************************************************************)
FanOutTools == {"get_user_context", "get_project_overview", "read_references"}

Tools == FanOutTools \cup
    {"search_repositories", "get_repository_map", "inspect_target_file",
     "initialize_workspace", "commit_file_update", "submit_review_request"}

PathNames == {"a.txt", "missing.txt"}

\* time.time() read by initialize_workspace
UnixTimes == {1700000000, 1700000001}

ArgsOf(tool) ==
    CASE tool = "read_references" ->
            { [paths |-> ps] : ps \in SeqsUpTo(PathNames, MaxPaths) }
      [] tool = "inspect_target_file" -> { [path |-> "a.txt"] }
      [] tool = "initialize_workspace" ->
            { [base_branch |-> "main", unix_time |-> t] : t \in UnixTimes }
      [] tool = "commit_file_update" ->
            { [branch |-> "docs", path |-> "a.txt", new_content |-> "documented",
               original_sha |-> h, message |-> "docs"] : h \in Shas }
      [] tool = "submit_review_request" -> { [head_branch |-> "docs"] }
      [] OTHER -> { [none |-> TRUE] }

LoginIdle ==
    /\ now = 0
    /\ vl_pc = "idle"
    /\ vl_start = 0
    /\ vl_polls = 0
    /\ vl_answers = 0
    /\ vl_sleeps = 0
    /\ vl_last = NoPoll
    /\ vl_lat = 0
    /\ vl_waited = TRUE
    /\ vl_result = NoResult

Init ==
    /\ LoginIdle
    /\ RaceIdle
    /\ UnitsIdle
    /\ BranchIdle
    /\ op \in Tools
    /\ ctx \in Contexts
    /\ args \in ArgsOf(op)
    /\ pc = "start"
    /\ reqs = <<>>
    /\ resp = <<>>
    /\ result = NoResult

Next ==
    \/ GUC_Start \/ GUC_Gathered
    \/ SR_Start \/ SR_Done
    \/ GRM_Start \/ GRM_Done
    \/ GPO_Start \/ GPO_Gathered
    \/ ITF_Start \/ ITF_Content \/ ITF_History \/ ITF_PullRequest
    \/ RR_Start \/ RR_Gathered
    \/ IW_Start \/ IW_Ref \/ IW_Created
    \/ CFU_Start \/ CFU_Done
    \/ SRR_Start \/ SRR_Done
    \/ Respond

Spec == Init /\ [][Next]_vars

Done == pc = "done"

\* the header carries no usable credential: missing, empty, or without one of
\* the three prefixes
BadCredential ==
    \/ ~ctx.request_ok
    \/ ~ctx.has_header
    \/ ctx.token = <<>>
    \/ Len(ctx.token) < 3
    \/ SubSeq(ctx.token, 1, 3) \notin { <<"g","h","u">>, <<"g","h","o">>, <<"g","h","p">> }

\* the request was answered with status 200 (and, for content, a decodable body)
Answered(i) == i \in 1..Len(reqs) /\ resp[i] # NoResp
Succeeded(i) == Answered(i) /\ resp[i].status = 200 /\ resp[i].body # "garbled"
FetchFailed(i) == Answered(i) /\ ~Succeeded(i)

(***************************************************************************)
(* Properties of the credentialed tools                                    *)
(***************************************************************************)

\* C1: a call of any credentialed tool whose credential is missing, empty or
\* not allow-listed issues no platform request and ends in the
\* authentication failure.
C1_NoRequestWithoutCredential ==
    BadCredential =>
        /\ reqs = <<>>
        /\ pc \in {"start", "done"}
        /\ Done => result = AuthenticationFailed

\* commit_file_update called with a wrong-prefix token has ended
C1_Witness ==
    /\ op = "commit_file_update"
    /\ ctx.has_header /\ ctx.token = <<"g","h","x">>
    /\ Done /\ result = AuthenticationFailed /\ reqs = <<>>

\* C5: read_references returns one block per requested path, in request
\* order; the block of a path is a success block iff that path's own fetch
\* succeeded, and an inline error marker otherwise, whatever the other
\* fetches did.
C5_OneBlockPerPath ==
    (op = "read_references" /\ Done /\ ~BadCredential) =>
        /\ result.kind = "References"
        /\ Len(result.blocks) = Len(args.paths)
        /\ \A i \in 1..Len(args.paths) :
            /\ result.blocks[i].path = args.paths[i]
            /\ Succeeded(i) <=> result.blocks[i].tag = "REFERENCE"
            /\ FetchFailed(i) <=> result.blocks[i].tag \in
                                    {"ERROR", "ERROR: Could not decode"}

\* C7: commit_file_update answered 409 returns the conflict category, not
\* the generic error, and it reports success only for status 200 or 201.
C7_ConflictCategory ==
    (op = "commit_file_update" /\ Done /\ Answered(1) /\ resp[1] # TransportFailure) =>
        /\ resp[1].status = 409 =>
               result = [kind |-> "Update failed", error |-> [category |-> "409 Conflict"]]
        /\ result.kind = "File updated" <=> resp[1].status \in {200, 201}
        /\ result.kind # "File updated" =>
               /\ result.kind = "Update failed"
               /\ result.error.category = "GitHub API Error" <=>
                       resp[1].status \notin {401, 403, 404, 409, 422}

\* an update with a stale hash was answered 409
C7_Witness ==
    /\ op = "commit_file_update" /\ Done /\ Answered(1)
    /\ args.original_sha = "sha1"
    /\ reqs[1].payload.sha = "sha1"
    /\ resp[1].status = 409
    /\ result.kind = "Update failed"

\* C8: a fan-out tool has ended only when every sub-request it issued has
\* completed; none is in flight after the end.
C8_FanInUnconditional ==
    (op \in FanOutTools /\ Done) => InFlight = {}

\* C9: get_user_context fails as a whole when the identity fetch fails, and
\* returns the identity with an embedded repository error when only the
\* repository fetch fails.
C9_IdentityLoadBearing ==
    (op = "get_user_context" /\ Done /\ ~BadCredential) =>
        /\ FetchFailed(1) => result.kind \in {"User Check Failed", "Raised"}
        /\ (Succeeded(1) /\ FetchFailed(2)) =>
               /\ result.kind = "User Context"
               /\ result.user = resp[1].body
               /\ "error" \in DOMAIN result.repos

\* C10: get_project_overview returns the overview for every combination of
\* sub-fetch outcomes, a failed sub-fetch replaced by its own placeholder.
C10_OverviewNeverFails ==
    (op = "get_project_overview" /\ Done /\ ~BadCredential) =>
        /\ result.kind = "Project Overview"
        /\ result.languages = (IF Succeeded(1) THEN resp[1].body ELSE "Unknown")
        /\ result.stack = (IF Succeeded(2) THEN resp[2].body
                           ELSE "(Dependency Graph disabled for this repo)")
        /\ Succeeded(3) <=> result.readme = "README Preview"

\* C11: in inspect_target_file the history request is issued only after the
\* content response was received with success, the pull-request lookup only
\* after the history response was received and for the latest commit named in
\* it; a content fetch answered with an error status returns the translated
\* error and issues no further request.
C11_StrictlySequential ==
    op = "inspect_target_file" =>
        /\ Len(reqs) <= 3
        /\ Cardinality(InFlight) <= 1
        /\ Len(reqs) >= 2 =>
              /\ reqs[2].endpoint = "commits"
              /\ Answered(1) /\ resp[1].status = 200 /\ resp[1].body = "ok"
        /\ Len(reqs) >= 3 =>
              /\ reqs[3].endpoint = "commit pulls"
              /\ Answered(2) /\ resp[2].status = 200
              /\ resp[2].body \in Shas
              /\ reqs[3].payload = resp[2].body
        /\ (Answered(1) /\ resp[1] # TransportFailure /\ resp[1].status # 200 /\ Done) =>
              /\ Len(reqs) = 1
              /\ result.kind = "Error"
              /\ result.error.category \in
                    {"401 Unauthorized", "403 Forbidden", "404 Not Found",
                     "409 Conflict", "422 Unprocessable Entity", "GitHub API Error"}

\* the three fetches were made one after the other and the document was returned
C11_Witness ==
    /\ op = "inspect_target_file" /\ Done
    /\ Len(reqs) = 3
    /\ reqs[3].payload = "sha1"
    /\ result.kind = "Deep Inspection"

\* C12: get_repository_map answered 200 with truncated: true returns the
\* partial-structure warning and no listing; every other 200 answer returns
\* the listing cut to its first 200 paths, which is a different result.
C12_TruncatedWarning ==
    (op = "get_repository_map" /\ Done /\ Answered(1) /\ resp[1].status = 200) =>
        /\ resp[1].body = "truncated" =>
              /\ result.kind = "Warning: Repo is too large"
              /\ "files" \notin DOMAIN result
        /\ resp[1].body # "truncated" =>
              /\ result.kind = "Repository Map"
              /\ result.files <= MapLimit
              /\ resp[1].body = "long" => result.files = MapLimit

\* a tree marked truncated was answered with the warning
C12_Witness ==
    /\ op = "get_repository_map" /\ Done /\ Answered(1)
    /\ resp[1].status = 200 /\ resp[1].body = "truncated"
    /\ result = [kind |-> "Warning: Repo is too large"]

\* the requests a step of the write protocol may issue, in order
OwnRequests(tool) ==
    CASE tool = "initialize_workspace" -> << <<"GET", "ref">>, <<"POST", "refs">> >>
      [] tool = "commit_file_update" -> << <<"PUT", "contents">> >>
      [] tool = "submit_review_request" -> << <<"POST", "pulls">> >>
      [] OTHER -> << >>

\* C17: whatever its outcome, initialize_workspace issues only the ref read
\* and then the ref create, commit_file_update one content update, and
\* submit_review_request one pull-request create; none issues a request that
\* deletes or reverts what an earlier step made.
C17_NoRollback ==
    op \in {"initialize_workspace", "commit_file_update", "submit_review_request"} =>
        /\ Len(reqs) <= Len(OwnRequests(op))
        /\ \A i \in 1..Len(reqs) :
              /\ <<reqs[i].method, reqs[i].endpoint>> = OwnRequests(op)[i]
              /\ reqs[i].method \notin {"DELETE", "PATCH"}
        /\ (Done /\ ValidateHeaderToken(ctx).ok /\ op # "initialize_workspace") =>
              Len(reqs) = 1

\* the branch creation was refused and the call ended with its two requests
C17_Witness ==
    /\ op = "initialize_workspace" /\ Done
    /\ Len(reqs) = 2 /\ resp[2] # TransportFailure /\ resp[2].status = 422
    /\ result.kind = "Error creating branch"

\* fields of a result or request that hold a credential
CredentialFields == {"token", "config_token", "auth", "access_token"}

\* C19: the result of a credentialed tool, success or failure, and the
\* Authentication Failed error carry no credential: neither the result nor
\* the translated error inside it has a field holding the caller's token.
C19_CredentialNeverEchoed ==
    /\ DOMAIN result \cap CredentialFields = {}
    /\ ("error" \in DOMAIN result /\ result.kind \notin {"ToolError", "Raised"}) =>
          DOMAIN result.error \cap CredentialFields = {}

\* a header value of no registered prefix was refused without being echoed
C19_Witness ==
    /\ Done
    /\ ctx.has_header /\ ctx.token = <<"x">>
    /\ result = [kind |-> "ToolError", error |-> "Authentication Failed"]

\* C21: initialize_workspace reads the base branch's commit identifier first
\* and issues the branch creation only after that read was answered 200,
\* carrying exactly the identifier read; a base read answered with an error
\* status returns the translated failure with no create request; success is
\* reported only when the creation is answered 201.
C21_ReadThenCreate ==
    op = "initialize_workspace" =>
        /\ Len(reqs) >= 1 =>
              /\ reqs[1].method = "GET" /\ reqs[1].endpoint = "ref"
              /\ reqs[1].payload = args.base_branch
        /\ Len(reqs) >= 2 =>
              /\ Answered(1) /\ resp[1].status = 200
              /\ reqs[2].method = "POST" /\ reqs[2].endpoint = "refs"
              /\ reqs[2].payload.sha = resp[1].body
        /\ (Done /\ Answered(1) /\ resp[1] # TransportFailure /\ resp[1].status # 200) =>
              /\ Len(reqs) = 1
              /\ result.kind = "Failed to find base branch"
              /\ result.error.category \in
                    {"401 Unauthorized", "403 Forbidden", "404 Not Found",
                     "409 Conflict", "422 Unprocessable Entity", "GitHub API Error"}
        /\ result.kind = "Workspace initialized" =>
              Len(reqs) = 2 /\ Answered(2) /\ resp[2].status = 201
        /\ (Done /\ Answered(2) /\ resp[2] # TransportFailure /\ resp[2].status # 201) =>
              result.kind = "Error creating branch"

\* the branch was created at the identifier that the read returned
C21_Witness ==
    /\ op = "initialize_workspace" /\ Done
    /\ Len(reqs) = 2 /\ resp[1].body = "sha1" /\ reqs[2].payload.sha = "sha1"
    /\ resp[2].status = 201
    /\ result.kind = "Workspace initialized"

\* every request issued so far was answered by the platform with some status
AllAnsweredWithStatus ==
    \A i \in 1..Len(reqs) : resp[i] # NoResp /\ resp[i] # TransportFailure

\* C22: once the content fetch of inspect_target_file has succeeded, every
\* outcome of the history fetch and of the pull-request lookup (error status,
\* empty list, a pull request with or without a body) ends in the composed
\* document with the decoded content and its hash; a failed history fetch
\* gives empty history, no pull-request lookup and "No associated PR found."
C22_HistoryAndPrNonFatal ==
    (/\ op = "inspect_target_file" /\ Done
     /\ Succeeded(1) /\ AllAnsweredWithStatus) =>
        /\ result.kind = "Deep Inspection"
        /\ result.content = resp[1].body
        /\ result.sha = "blob sha"
        /\ resp[2].status # 200 =>
              /\ Len(reqs) = 2
              /\ result.history = ""
              /\ result.pr = "No associated PR found."

(***************************************************************************)
(* Concurrent commit_file_update calls on one (repo, branch, path), and    *)
(* the platform's precondition on the content hash                         *)
(***************************************************************************)
\* number of concurrent commit_file_update calls
NumWriters == 2

Writers == 1..NumWriters

\* the blob SHA: an opaque identifier of a content
BlobSha(content) == [sha_of |-> content]

\* what the platform reads back from the "content" field of an update
B64Decode(encoded) == encoded.b64

\* the platform's handling of PUT /contents/{path}: the update is accepted
\* only when the supplied hash is the hash of the live content
PlatformAccepts(live, payload) == payload.sha = BlobSha(live)

NoReq == [none |-> TRUE]

\* the writers' credential passes validate_header_token
WriterToken == <<"g", "h", "u">>

\* the documented file a call writes: it differs from the stored file, so an
\* accepted update changes the live hash; two calls may write the same text
NewContents == {"documented A", "documented B"}

\* every call carries the same original hash: the live one, or a stale one
InitRace ==
    /\ LoginIdle
    /\ CallIdle
    /\ UnitsIdle
    /\ BranchIdle
    /\ stored = "original"
    /\ \E h \in {BlobSha("original"), BlobSha("older")} :
          cw_args \in [Writers -> { [branch |-> "docs", path |-> "a.txt",
                                     new_content |-> c, original_sha |-> h,
                                     message |-> "docs"] : c \in NewContents }]
    /\ cw_pc = [w \in Writers |-> "start"]
    /\ cw_req = [w \in Writers |-> NoReq]
    /\ cw_resp = [w \in Writers |-> NoResp]
    /\ cw_result = [w \in Writers |-> NoResult]

\* call w builds its payload and sends the update; nothing is locked or read first
CW_Send(w) ==
    /\ cw_pc[w] = "start"
    /\ cw_req' = [cw_req EXCEPT ![w] = CFU_Request(WriterToken, cw_args[w])]
    /\ cw_pc' = [cw_pc EXCEPT ![w] = "await"]
    /\ UNCHANGED <<cw_args, cw_resp, cw_result, stored, nonRaceVars>>

\* the platform handles the update of call w: compare-and-set on the hash
Platform_Put(w) ==
    /\ cw_pc[w] = "await"
    /\ cw_resp[w] = NoResp
    /\ IF PlatformAccepts(stored, cw_req[w].payload)
       THEN /\ stored' = B64Decode(cw_req[w].payload.content)
            /\ cw_resp' = [cw_resp EXCEPT ![w] = [status |-> 200, body |-> "ok"]]
       ELSE /\ UNCHANGED stored
            /\ cw_resp' = [cw_resp EXCEPT ![w] = [status |-> 409, body |-> "message"]]
    /\ UNCHANGED <<cw_args, cw_pc, cw_req, cw_result, nonRaceVars>>

\* call w receives the answer and returns
CW_Done(w) ==
    /\ cw_pc[w] = "await"
    /\ cw_resp[w] # NoResp
    /\ cw_result' = [cw_result EXCEPT ![w] = CFU_Result(cw_resp[w])]
    /\ cw_pc' = [cw_pc EXCEPT ![w] = "done"]
    /\ UNCHANGED <<cw_args, cw_req, cw_resp, stored, nonRaceVars>>

NextRace ==
    \/ \E w \in Writers : CW_Send(w)
    \/ \E w \in Writers : Platform_Put(w)
    \/ \E w \in Writers : CW_Done(w)

SpecRace == InitRace /\ [][NextRace]_vars

CW_Updated(w) == cw_result[w].kind = "File updated"
CW_Conflict(w) ==
    cw_result[w] = [kind |-> "Update failed", error |-> [category |-> "409 Conflict"]]

MaxHeaderLen == 4

\* the process environment's GITHUB_PERSONAL_ACCESS_TOKEN: unset, a token of
\* a registered prefix, or a value of no registered prefix
EnvTokens == { <<>>, <<"g","h","p","x">>, <<"x">> }

\* validate_header_token(ctx), called in a process with some environment
ExtractorInputs ==
    { [ctx |-> c, env |-> e] :
        c \in { [request_ok |-> FALSE, has_header |-> FALSE, token |-> <<>>],
                [request_ok |-> TRUE, has_header |-> FALSE, token |-> <<>>] }
              \cup { [request_ok |-> TRUE, has_header |-> TRUE, token |-> t] :
                        t \in SeqsUpTo(TokenChars, MaxHeaderLen) },
        e \in EnvTokens }

\* resp.status_code and resp.text of the response given to parse_github_error
HttpStatuses == 100..599
ResponseTexts == {"", "message", "<html>"}
TranslatorInputs == [status : HttpStatuses, body : ResponseTexts]

\* client.post("https://github.com/login/device/code", data={client_id, scope})
IL_Request ==
    [method |-> "POST", endpoint |-> "login/device/code",
     payload |-> [client_id |-> "GITHUB_CLIENT_ID", scope |-> "repo,read:org"]]

\* the device-code response: its body is the JSON object with the codes, a
\* JSON object without them, or not JSON at all (an HTML error page)
IL_Statuses == {200, 400, 401, 403, 404, 422, 429, 500, 503}
IL_Bodies == {"codes", "error object", "<html>"}
IL_Responses == [status : IL_Statuses, body : IL_Bodies] \cup {TransportFailure}

\* data = resp.json() comes first, then the status test, then data["device_code"]
IL_Result(r) ==
    IF r = TransportFailure THEN Raised("TransportError")
    ELSE IF r.body = "<html>" THEN Raised("JSONDecodeError")
    ELSE IF r.status # 200 THEN [kind |-> "Error connecting to GitHub", text |-> r.body]
    ELSE IF r.body # "codes" THEN Raised("KeyError")
    ELSE [kind |-> "ACTION REQUIRED", device_code |-> r.body]

Units == {"validate_header_token", "parse_github_error", "initiate_login"}

InputsOf(unit) ==
    CASE unit = "validate_header_token" -> ExtractorInputs
      [] unit = "parse_github_error" -> TranslatorInputs
      [] OTHER -> { [none |-> TRUE] }

InitUnits ==
    /\ LoginIdle
    /\ CallIdle
    /\ RaceIdle
    /\ BranchIdle
    /\ un_op \in Units
    /\ un_in \in InputsOf(un_op)
    /\ un_pc = "ready"
    /\ un_reqs = <<>>
    /\ un_resp = NoResp
    /\ un_out = NoResult

VHT_Call ==
    /\ un_op = "validate_header_token" /\ un_pc = "ready"
    /\ un_out' = ValidateHeaderToken(un_in.ctx)
    /\ un_pc' = "done"
    /\ UNCHANGED <<un_op, un_in, un_reqs, un_resp, nonUnitVars>>

PGE_Call ==
    /\ un_op = "parse_github_error" /\ un_pc = "ready"
    /\ un_out' = ParseGithubError(un_in)
    /\ un_pc' = "done"
    /\ UNCHANGED <<un_op, un_in, un_reqs, un_resp, nonUnitVars>>

IL_Call ==
    /\ un_op = "initiate_login" /\ un_pc = "ready"
    /\ un_reqs' = Append(un_reqs, IL_Request)
    /\ un_pc' = "awaiting"
    /\ UNCHANGED <<un_op, un_in, un_resp, un_out, nonUnitVars>>

IL_Response ==
    /\ un_op = "initiate_login" /\ un_pc = "awaiting"
    /\ \E r \in IL_Responses :
          /\ un_resp' = r
          /\ un_out' = IL_Result(r)
    /\ un_pc' = "done"
    /\ UNCHANGED <<un_op, un_in, un_reqs, nonUnitVars>>

NextUnits ==
    \/ VHT_Call
    \/ PGE_Call
    \/ IL_Call
    \/ IL_Response

SpecUnits == InitUnits /\ [][NextUnits]_vars

UnitDone(unit) == un_op = unit /\ un_pc = "done"

\* C13: parse_github_error is a total, fixed table: 401, 403, 404, 409 and 422
\* each map to their own category, which carries nothing of the response, and
\* every other status maps to the generic category carrying the status code
\* and the response body.
C13_FixedTable ==
    UnitDone("parse_github_error") =>
        /\ un_in.status = 401 => un_out = [category |-> "401 Unauthorized"]
        /\ un_in.status = 403 => un_out = [category |-> "403 Forbidden"]
        /\ un_in.status = 404 => un_out = [category |-> "404 Not Found"]
        /\ un_in.status = 409 => un_out = [category |-> "409 Conflict"]
        /\ un_in.status = 422 => un_out = [category |-> "422 Unprocessable Entity"]
        /\ un_in.status \notin {401, 403, 404, 409, 422} =>
              un_out = [category |-> "GitHub API Error",
                        status |-> un_in.status, text |-> un_in.body]

\* a status outside the table was translated to the generic category with its body
C13_Witness ==
    /\ UnitDone("parse_github_error")
    /\ un_in = [status |-> 503, body |-> "<html>"]
    /\ un_out.category = "GitHub API Error" /\ un_out.text = "<html>"

\* C14: validate_header_token takes the header's value when the header is
\* present, and the environment's value when the header is absent, so an
\* absent header with a valid environment credential yields that credential.
C14_HeaderThenEnvironment ==
    (UnitDone("validate_header_token") /\ un_in.ctx.request_ok) =>
        /\ (un_in.ctx.has_header /\ un_out.ok) => un_out.token = un_in.ctx.token
        /\ (~un_in.ctx.has_header /\ un_in.env = <<"g","h","p","x">>) =>
              un_out = [ok |-> TRUE, token |-> un_in.env]

\* C15: every non-empty header value that starts with ghu, gho or ghp is
\* accepted by validate_header_token and returned unchanged, and the call
\* issues no platform request and changes nothing else.
C15_PrefixedTokenAccepted ==
    (/\ UnitDone("validate_header_token")
     /\ un_in.ctx.request_ok /\ un_in.ctx.has_header
     /\ Len(un_in.ctx.token) >= 3
     /\ un_in.ctx.token[1] = "g" /\ un_in.ctx.token[2] = "h"
     /\ un_in.ctx.token[3] \in {"u", "o", "p"}) =>
        /\ un_out = [ok |-> TRUE, token |-> un_in.ctx.token]
        /\ un_reqs = <<>>
        /\ un_resp = NoResp

\* a token longer than its ghp prefix was accepted
C15_Witness ==
    /\ UnitDone("validate_header_token")
    /\ un_in.ctx.has_header /\ un_in.ctx.token = <<"g","h","p","x">>
    /\ un_out = [ok |-> TRUE, token |-> <<"g","h","p","x">>]

\* C16: initiate_login, answered with any status other than 200, returns the
\* "Error connecting to GitHub" message with the response body, whatever the
\* body's form; in every case it issues exactly one request and no token poll.
C16_ErrorMessageOnNonSuccess ==
    UnitDone("initiate_login") =>
        /\ Len(un_reqs) = 1
        /\ un_reqs[1].endpoint = "login/device/code"
        /\ (un_resp # TransportFailure /\ un_resp.status # 200) =>
              un_out = [kind |-> "Error connecting to GitHub", text |-> un_resp.body]

(***************************************************************************)
(* Concurrent initialize_workspace calls on one repository, and the        *)
(* platform's refusal to create a branch that exists                       *)
(***************************************************************************)
\* number of concurrent initialize_workspace calls
NumCreators == 2
\* latest instant at which a call reads the clock, in half seconds
MaxInstant == 3

Creators == 1..NumCreators

\* int(time.time()): the clock, read in half seconds, cut to whole seconds
UnixSecondKeepsFraction(instant) == 1700000000 + instant
UnixSecond(instant) == 1700000000 + (instant \div 2)

\* the platform's handling of POST /git/refs: a ref that exists is not created again
PlatformCreates(existing, payload) == payload.ref \notin existing

InitBranch ==
    /\ LoginIdle
    /\ CallIdle
    /\ RaceIdle
    /\ UnitsIdle
    /\ bw_clock \in [Creators -> 0..MaxInstant]
    /\ bw_pc = [c \in Creators |-> "start"]
    /\ bw_branch = [c \in Creators |-> None]
    /\ bw_req = [c \in Creators |-> NoReq]
    /\ bw_resp = [c \in Creators |-> NoResp]
    /\ bw_result = [c \in Creators |-> NoResult]
    /\ branches = {}
    /\ base_head = "sha0"

\* call c names its branch from the clock and reads the base branch's ref
BW_Start(c) ==
    /\ bw_pc[c] = "start"
    /\ bw_branch' = [bw_branch EXCEPT ![c] = BranchName(UnixSecond(bw_clock[c]))]
    /\ bw_req' = [bw_req EXCEPT ![c] = Req("GET", "ref", WriterToken, "main")]
    /\ bw_pc' = [bw_pc EXCEPT ![c] = "ref"]
    /\ UNCHANGED <<bw_clock, bw_resp, bw_result, branches, base_head, nonBranchVars>>

\* the platform answers the ref read of call c with the base branch's head
Platform_GetRef(c) ==
    /\ bw_pc[c] = "ref"
    /\ bw_resp[c] = NoResp
    /\ bw_resp' = [bw_resp EXCEPT ![c] = [status |-> 200, body |-> base_head]]
    /\ UNCHANGED <<bw_clock, bw_pc, bw_branch, bw_req, bw_result, branches,
                   base_head, nonBranchVars>>

\* somebody pushes to the base branch
Platform_Push ==
    /\ base_head = "sha0"
    /\ base_head' = "sha1"
    /\ UNCHANGED <<bw_clock, bw_pc, bw_branch, bw_req, bw_resp, bw_result,
                   branches, nonBranchVars>>

\* call c receives the ref and sends the branch creation
BW_Ref(c) ==
    /\ bw_pc[c] = "ref"
    /\ bw_resp[c] # NoResp
    /\ IF bw_resp[c].status # 200
       THEN /\ bw_result' = [bw_result EXCEPT ![c] =
                                [kind |-> "Failed to find base branch",
                                 error |-> ParseGithubError(bw_resp[c])]]
            /\ bw_pc' = [bw_pc EXCEPT ![c] = "done"]
            /\ UNCHANGED <<bw_req, bw_resp>>
       ELSE /\ bw_req' = [bw_req EXCEPT ![c] =
                             Req("POST", "refs", WriterToken,
                                 [ref |-> bw_branch[c], sha |-> bw_resp[c].body])]
            /\ bw_resp' = [bw_resp EXCEPT ![c] = NoResp]
            /\ bw_pc' = [bw_pc EXCEPT ![c] = "create"]
            /\ UNCHANGED bw_result
    /\ UNCHANGED <<bw_clock, bw_branch, branches, base_head, nonBranchVars>>

\* the platform handles the branch creation of call c
Platform_CreateRef(c) ==
    /\ bw_pc[c] = "create"
    /\ bw_resp[c] = NoResp
    /\ IF PlatformCreates(branches, bw_req[c].payload)
       THEN /\ branches' = branches \cup {bw_req[c].payload.ref}
            /\ bw_resp' = [bw_resp EXCEPT ![c] = [status |-> 201, body |-> "ok"]]
       ELSE /\ UNCHANGED branches
            /\ bw_resp' = [bw_resp EXCEPT ![c] = [status |-> 422, body |-> "message"]]
    /\ UNCHANGED <<bw_clock, bw_pc, bw_branch, bw_req, bw_result, base_head,
                   nonBranchVars>>

\* call c receives the answer to the creation and returns
BW_Created(c) ==
    /\ bw_pc[c] = "create"
    /\ bw_resp[c] # NoResp
    /\ bw_result' = [bw_result EXCEPT ![c] =
            IF bw_resp[c].status = 201
            THEN [kind |-> "Workspace initialized", branch |-> bw_branch[c]]
            ELSE [kind |-> "Error creating branch",
                  error |-> ParseGithubError(bw_resp[c])]]
    /\ bw_pc' = [bw_pc EXCEPT ![c] = "done"]
    /\ UNCHANGED <<bw_clock, bw_branch, bw_req, bw_resp, branches, base_head,
                   nonBranchVars>>

NextBranch ==
    \/ \E c \in Creators : BW_Start(c)
    \/ \E c \in Creators : Platform_GetRef(c)
    \/ Platform_Push
    \/ \E c \in Creators : BW_Ref(c)
    \/ \E c \in Creators : Platform_CreateRef(c)
    \/ \E c \in Creators : BW_Created(c)

SpecBranch == InitBranch /\ [][NextBranch]_vars

BW_Initialized(c) == bw_result[c].kind = "Workspace initialized"
BW_Refused(c) ==
    bw_result[c] = [kind |-> "Error creating branch",
                    error |-> [category |-> "422 Unprocessable Entity"]]
BW_SameSecond(c, d) == bw_clock[c] \div 2 = bw_clock[d] \div 2

====
